---- MODULE Spec2Model ----
(***************************************************************************)
(* Lazy sequence combinators of src/generator.ts.                          *)
(*                                                                         *)
(* The sequential family (function* map, filter, ...) is modelled by one   *)
(* operator per generator body: the operator is one resumption of the      *)
(* body, from the consumer's next() to the next yield, return or throw.    *)
(* A generator object is a record holding its position (st), its locals    *)
(* and its upstream iterator (up), which is another generator or a leaf    *)
(* source.  The suspending family (async function* mapAsync, ...) is       *)
(* modelled further down as a chain of processes that suspend at every     *)
(* await.                                                                  *)
(***************************************************************************)
EXTENDS Integers, Sequences, FiniteSets, TLC

\* ------------------------------------------------------------------ bounds
MaxLen == 3
MaxPulls == 5

\* The elements the sources are drawn from (opaque values to the library).
Vals == {0, 1, 2}
\* The inner sequences the sources of sources are drawn from.
Inners == {<<>>, <<0>>, <<1, 2>>, <<2, 0>>}

VARIABLES
    mode,   \* "sync": the sequential family is driven; "async": the suspending
    cfg,    \* the call under study: combinator, source and step functions
    gen,    \* sequential family: the outermost generator object
    leaf,   \* suspending family: the source at the bottom of the chain
    procs,  \* suspending family: the async generator objects, upstream first
    inbox,  \* inbox[i]: settled results of procs[i]'s upstream pulls that its
            \* continuation has not run on yet
    issued, \* suspending family: the pulls the consumer has issued
    out,    \* the results the consumer's pulls have settled with, in order
    gen2,   \* dedupe: the generator object of a second call of dedupe, on an
            \* iterator of its own over the same elements
    out2    \* the results of the consumer's pulls on gen2, in order

\* ------------------------------------------------------- iterator results
\* IteratorResult {value, done: false}
Val(v) == [t |-> "val", v |-> v]
\* IteratorResult {done: true}
Done == [t |-> "done"]
\* an abrupt completion: the pull throws e
Throw(e) == [t |-> "throw", e |-> e]
\* the null / undefined a filterMap step function answers with
Absent == [t |-> "null"]

\* the two failures a chain can see, told apart by identity
ErrStep == "step function failed"
ErrSrc == "source failed"

\* ------------------------------------------------- caller's step functions
\* transform (T -> U): fails on the values in bad
fn(bad, value) == IF value \in bad THEN Throw(ErrStep) ELSE Val(value * 2)
\* predicate (T -> boolean): accepts the values in accept, fails on bad
predicate(accept, bad, value) ==
    IF value \in bad THEN Throw(ErrStep) ELSE Val(value \in accept)
\* accumulator (U, T -> U): not commutative, so that order shows
accumulate(bad, acc, value) ==
    IF value \in bad THEN Throw(ErrStep) ELSE Val((2 * acc + value + 1) % 7)
\* filtering transform (T -> U | null)
fnOrNull(accept, bad, value) ==
    IF value \in bad THEN Throw(ErrStep)
    ELSE IF value \in accept THEN Val(value * 2) ELSE Absent
\* getKey (T -> string): 0 and 2 share a key and differ in payload
getKey(bad, value) == IF value \in bad THEN Throw(ErrStep) ELSE Val(value % 2)
\* flatMap's fn (T -> Iterable<U>): value copies of value, so 0 gives []
fnIter(bad, value) ==
    IF value \in bad THEN Throw(ErrStep) ELSE Val([i \in 1..value |-> value])

\* ------------------------------------------------------------ leaf source
\* An upstream iterator the caller supplies: it yields items in order (over
\* and over when cyc: an unbounded source), throws ErrSrc on its failAt-th
\* pull, and is finished by done, by a throw and by return().  pulls, closes
\* and threw record the next() calls, the return() calls and the throw.
Source(items, cyc, failAt) ==
    [kind |-> "src", items |-> items, cyc |-> cyc, failAt |-> failAt,
     pos |-> 0, st |-> "open", pulls |-> 0, closes |-> 0, threw |-> FALSE]

\* iterator.next() on a leaf source
srcNext(s) ==
    LET s1 == [s EXCEPT !.pulls = @ + 1] IN
    IF s.st = "done" THEN [res |-> Done, g |-> s1]
    ELSE IF s.failAt = s.pos + 1
        THEN [res |-> Throw(ErrSrc),
              g |-> [s1 EXCEPT !.st = "done", !.threw = TRUE]]
    ELSE IF s.pos < Len(s.items) \/ (s.cyc /\ Len(s.items) > 0)
        THEN [res |-> Val(s.items[(s.pos % Len(s.items)) + 1]),
              g |-> [s1 EXCEPT !.pos = @ + 1]]
    ELSE [res |-> Done, g |-> [s1 EXCEPT !.st = "done"]]

\* iterator.return() on a leaf source
srcReturn(s) == [s EXCEPT !.st = "done", !.closes = @ + 1]

\* no iterator: the inner slot of a generator outside a yield*
NoIter == [kind |-> "none"]

\* --------------------------------------------------- generator objects
\* A generator object of the sequential family, before its first next().
\* iter tells that map's fn is one returning an iterable (map feeding
\* flatten).
Gen(kind, up, accept, bad, n, initial) ==
    [kind |-> kind, st |-> "start", up |-> up, accept |-> accept, bad |-> bad,
     n |-> n, count |-> 0, acc |-> initial, seen |-> {}, inner |-> NoIter,
     iter |-> FALSE, pulls |-> 0, closes |-> 0]

\* the generator completes: it returns (res = Done) or throws
Finish(g, up, res) == [res |-> res, g |-> [g EXCEPT !.up = up, !.st = "done"]]
\* the generator suspends at a yield inside its loop
Yield(g, up, v) == [res |-> Val(v), g |-> [g EXCEPT !.up = up, !.st = "yield"]]

RECURSIVE next(_), return(_)
RECURSIVE filter(_), filterMap(_), dedupe(_), flatten(_), flatMap(_), concat(_)
RECURSIVE reduceLoop(_, _, _)

\* map yielding the element itself instead of fn(value)
map_identity(g) ==
    LET r == next(g.up) IN
    IF r.res.t # "val" THEN Finish(g, r.g, r.res)
    ELSE LET c == fn(g.bad, r.res.v) IN
         IF c.t = "throw" THEN Finish(g, return(r.g), c)
         ELSE Yield(g, r.g, r.res.v)

\* map wrapping the failure of its step function in an error of its own
map_wrap(g) ==
    LET r == next(g.up) IN
    IF r.res.t # "val" THEN Finish(g, r.g, r.res)
    ELSE LET c == fn(g.bad, r.res.v) IN
         IF c.t = "throw" THEN Finish(g, return(r.g), Throw("map failed"))
         ELSE Yield(g, r.g, c.v)

\* map, reading one element ahead of the one it yields
map_readAhead(g) ==
    LET r == next(g.up) IN
    IF r.res.t # "val" THEN Finish(g, r.g, r.res)
    ELSE LET c == fn(g.bad, r.res.v) IN
         IF c.t = "throw" THEN Finish(g, return(r.g), c)
         ELSE Yield(g, next(r.g).g, c.v)

\* for (const value of iter) { yield fn(value); }
map(g) ==
    LET r == next(g.up) IN
    IF r.res.t # "val" THEN Finish(g, r.g, r.res)
    ELSE LET c == IF g.iter THEN fnIter(g.bad, r.res.v) ELSE fn(g.bad, r.res.v) IN
         IF c.t = "throw" THEN Finish(g, return(r.g), c)
         ELSE Yield(g, r.g, c.v)

\* filter ending at the first rejected element instead of pulling the next
filter_stopAtReject(g) ==
    LET r == next(g.up) IN
    IF r.res.t # "val" THEN Finish(g, r.g, r.res)
    ELSE LET c == predicate(g.accept, g.bad, r.res.v) IN
         IF c.t = "throw" THEN Finish(g, return(r.g), c)
         ELSE IF c.v THEN Yield(g, r.g, r.res.v)
         ELSE Finish(g, r.g, Done)

\* filter catching the failure of its upstream and ending as if exhausted
filter_suppress(g) ==
    LET r == next(g.up) IN
    IF r.res.t # "val" THEN Finish(g, r.g, Done)
    ELSE LET c == predicate(g.accept, g.bad, r.res.v) IN
         IF c.t = "throw" THEN Finish(g, return(r.g), c)
         ELSE IF c.v THEN Yield(g, r.g, r.res.v)
         ELSE filter([g EXCEPT !.up = r.g])

\* for (const value of iter) { if (predicate(value)) yield value; }
filter(g) ==
    LET r == next(g.up) IN
    IF r.res.t # "val" THEN Finish(g, r.g, r.res)
    ELSE LET c == predicate(g.accept, g.bad, r.res.v) IN
         IF c.t = "throw" THEN Finish(g, return(r.g), c)
         ELSE IF c.v THEN Yield(g, r.g, r.res.v)
         ELSE filter([g EXCEPT !.up = r.g])

\* reduce calling fn(value, result): the arguments swapped
reduceLoop_swapped(up, bad, result) ==
    LET r == next(up) IN
    IF r.res.t = "done" THEN [res |-> Val(result), g |-> r.g]
    ELSE IF r.res.t = "throw" THEN [res |-> r.res, g |-> r.g]
    ELSE LET c == accumulate(bad, r.res.v, result) IN
         IF c.t = "throw" THEN [res |-> c, g |-> return(r.g)]
         ELSE reduceLoop(r.g, bad, c.v)

\* for (const value of iter) { result = fn(result, value); } return result;
reduceLoop(up, bad, result) ==
    LET r == next(up) IN
    IF r.res.t = "done" THEN [res |-> Val(result), g |-> r.g]
    ELSE IF r.res.t = "throw" THEN [res |-> r.res, g |-> r.g]
    ELSE LET c == accumulate(bad, result, r.res.v) IN
         IF c.t = "throw" THEN [res |-> c, g |-> return(r.g)]
         ELSE reduceLoop(r.g, bad, c.v)

\* reduce(iter, fn, initial): a plain function, it drains iter when called
reduce(up, bad, initial) == reduceLoop(up, bad, initial)

\* scan without the yield of the initial accumulator
scan_noInitial(g) ==
    LET r == next(g.up) IN
    IF r.res.t # "val" THEN Finish(g, r.g, r.res)
    ELSE LET c == accumulate(g.bad, g.acc, r.res.v) IN
         IF c.t = "throw" THEN Finish(g, return(r.g), c)
         ELSE Yield([g EXCEPT !.acc = c.v], r.g, c.v)

\* let acc = initial; yield acc; for (...) { acc = fn(acc, value); yield acc; }
scan(g) ==
    IF g.st = "start"
    THEN [res |-> Val(g.acc), g |-> [g EXCEPT !.st = "yield0"]]
    ELSE LET r == next(g.up) IN
         IF r.res.t # "val" THEN Finish(g, r.g, r.res)
         ELSE LET c == accumulate(g.bad, g.acc, r.res.v) IN
              IF c.t = "throw" THEN Finish(g, return(r.g), c)
              ELSE Yield([g EXCEPT !.acc = c.v], r.g, c.v)

\* yield* inner, entered or resumed: one pull on the inner iterator.  A value
\* is re-yielded; a throw completes the generator and closes the iterator of
\* the enclosing for-of; on done (res = Done, st unchanged) the caller goes on
\* with its outer loop.
yieldStar(g) ==
    LET r == next(g.inner) IN
    IF r.res.t = "val"
        THEN [res |-> r.res, g |-> [g EXCEPT !.inner = r.g, !.st = "yield"]]
    ELSE IF r.res.t = "throw"
        THEN [res |-> r.res,
              g |-> [g EXCEPT !.inner = NoIter, !.up = return(g.up), !.st = "done"]]
    ELSE [res |-> Done, g |-> [g EXCEPT !.inner = NoIter]]

\* concat returning after its first argument
concat_firstOnly(g) ==
    IF g.inner.kind # "none"
    THEN LET d == yieldStar(g) IN
         IF d.res.t = "done" THEN Finish(d.g, d.g.up, Done) ELSE d
    ELSE LET r == next(g.up) IN
         IF r.res.t # "val" THEN Finish(g, r.g, r.res)
         ELSE concat([g EXCEPT !.up = r.g, !.inner = Source(r.res.v, FALSE, 0)])

\* for (const inner of iter) { yield* inner; }
concat(g) ==
    IF g.inner.kind # "none"
    THEN LET d == yieldStar(g) IN IF d.res.t = "done" THEN concat(d.g) ELSE d
    ELSE LET r == next(g.up) IN
         IF r.res.t # "val" THEN Finish(g, r.g, r.res)
         ELSE concat([g EXCEPT !.up = r.g, !.inner = Source(r.res.v, FALSE, 0)])

\* flatten ending at the first empty inner iterable
flatten_stopAtEmpty(g) ==
    IF g.inner.kind # "none"
    THEN LET d == yieldStar(g) IN IF d.res.t = "done" THEN flatten(d.g) ELSE d
    ELSE LET r == next(g.up) IN
         IF r.res.t # "val" THEN Finish(g, r.g, r.res)
         ELSE IF r.res.v = <<>> THEN Finish(g, r.g, Done)
         ELSE flatten([g EXCEPT !.up = r.g, !.inner = Source(r.res.v, FALSE, 0)])

\* for (const inner of iter) { yield* inner; }
flatten(g) ==
    IF g.inner.kind # "none"
    THEN LET d == yieldStar(g) IN IF d.res.t = "done" THEN flatten(d.g) ELSE d
    ELSE LET r == next(g.up) IN
         IF r.res.t # "val" THEN Finish(g, r.g, r.res)
         ELSE flatten([g EXCEPT !.up = r.g, !.inner = Source(r.res.v, FALSE, 0)])

\* flatMap leaving an inner iterable after its first element
flatMap_firstOnly(g) ==
    IF g.inner.kind # "none"
    THEN flatMap([g EXCEPT !.inner = NoIter])
    ELSE LET r == next(g.up) IN
         IF r.res.t # "val" THEN Finish(g, r.g, r.res)
         ELSE LET c == fnIter(g.bad, r.res.v) IN
              IF c.t = "throw" THEN Finish(g, return(r.g), c)
              ELSE flatMap([g EXCEPT !.up = r.g, !.inner = Source(c.v, FALSE, 0)])

\* for (const value of iter) { yield* fn(value); }
flatMap(g) ==
    IF g.inner.kind # "none"
    THEN LET d == yieldStar(g) IN IF d.res.t = "done" THEN flatMap(d.g) ELSE d
    ELSE LET r == next(g.up) IN
         IF r.res.t # "val" THEN Finish(g, r.g, r.res)
         ELSE LET c == fnIter(g.bad, r.res.v) IN
              IF c.t = "throw" THEN Finish(g, return(r.g), c)
              ELSE flatMap([g EXCEPT !.up = r.g, !.inner = Source(c.v, FALSE, 0)])

\* filterMap testing the result for truthiness: if (result) yield result;
filterMap_truthy(g) ==
    LET r == next(g.up) IN
    IF r.res.t # "val" THEN Finish(g, r.g, r.res)
    ELSE LET c == fnOrNull(g.accept, g.bad, r.res.v) IN
         IF c.t = "throw" THEN Finish(g, return(r.g), c)
         ELSE IF c.t # "null" /\ c.v # 0 THEN Yield(g, r.g, c.v)
         ELSE filterMap([g EXCEPT !.up = r.g])

\* for (...) { const result = fn(value); if (result != null) yield result; }
filterMap(g) ==
    LET r == next(g.up) IN
    IF r.res.t # "val" THEN Finish(g, r.g, r.res)
    ELSE LET c == fnOrNull(g.accept, g.bad, r.res.v) IN
         IF c.t = "throw" THEN Finish(g, return(r.g), c)
         ELSE IF c.t # "null" THEN Yield(g, r.g, c.v)
         ELSE filterMap([g EXCEPT !.up = r.g])

\* take's test off by one: if (count > n) break;
takeBreak_offByOne(count, n) == count > n

\* if (count >= n) break;
takeBreak(count, n) == count >= n

\* let count = 0; for (...) { if (count >= n) break; yield value; count++; }
take(g) ==
    LET g1 == IF g.st = "yield" THEN [g EXCEPT !.count = @ + 1] ELSE g
        r == next(g1.up)
    IN  IF r.res.t # "val" THEN Finish(g1, r.g, r.res)
        ELSE IF takeBreak(g1.count, g1.n) THEN Finish(g1, return(r.g), Done)
        ELSE Yield(g1, r.g, r.res.v)

\* takeWhile yielding the rejected element before it stops
takeWhile_inclusive(g) ==
    LET r == next(g.up) IN
    IF r.res.t # "val" \/ g.count > 0 THEN Finish(g, r.g, r.res)
    ELSE LET c == predicate(g.accept, g.bad, r.res.v) IN
         IF c.t = "throw" THEN Finish(g, return(r.g), c)
         ELSE Yield([g EXCEPT !.count = IF c.v THEN 0 ELSE 1], r.g, r.res.v)

\* for (...) { if (!predicate(value)) break; yield value; }
takeWhile(g) ==
    LET r == next(g.up) IN
    IF r.res.t # "val" THEN Finish(g, r.g, r.res)
    ELSE LET c == predicate(g.accept, g.bad, r.res.v) IN
         IF c.t = "throw" THEN Finish(g, return(r.g), c)
         ELSE IF ~c.v THEN Finish(g, return(r.g), Done)
         ELSE Yield(g, r.g, r.res.v)

\* dedupe without seen.add(key)
dedupe_noAdd(g) ==
    LET r == next(g.up) IN
    IF r.res.t # "val" THEN Finish(g, r.g, r.res)
    ELSE LET c == getKey(g.bad, r.res.v) IN
         IF c.t = "throw" THEN Finish(g, return(r.g), c)
         ELSE Yield(g, r.g, r.res.v)

\* dedupe with one set of seen keys for all its calls: const seen declared
\* at module level
dedupe_sharedSeen(g) ==
    LET r == next(g.up) IN
    IF r.res.t # "val" THEN Finish(g, r.g, r.res)
    ELSE LET c == getKey(g.bad, r.res.v) IN
         IF c.t = "throw" THEN Finish(g, return(r.g), c)
         ELSE IF c.v \notin (gen.seen \cup gen2.seen)
             THEN Yield([g EXCEPT !.seen = @ \cup {c.v}], r.g, r.res.v)
         ELSE dedupe([g EXCEPT !.up = r.g])

\* const seen = new Set(); for (...) { key = getKey(value);
\*   if (!seen.has(key)) { seen.add(key); yield value; } }
dedupe(g) ==
    LET r == next(g.up) IN
    IF r.res.t # "val" THEN Finish(g, r.g, r.res)
    ELSE LET c == getKey(g.bad, r.res.v) IN
         IF c.t = "throw" THEN Finish(g, return(r.g), c)
         ELSE IF c.v \notin g.seen
             THEN Yield([g EXCEPT !.seen = @ \cup {c.v}], r.g, r.res.v)
         ELSE dedupe([g EXCEPT !.up = r.g])

\* One resumption of a generator body, by its kind.
Body(g) ==
    CASE g.kind = "map" -> map(g)
      [] g.kind = "filter" -> filter(g)
      [] g.kind = "scan" -> scan(g)
      [] g.kind = "concat" -> concat(g)
      [] g.kind = "flatten" -> flatten(g)
      [] g.kind = "flatMap" -> flatMap(g)
      [] g.kind = "filterMap" -> filterMap(g)
      [] g.kind = "take" -> take(g)
      [] g.kind = "takeWhile" -> takeWhile(g)
      [] g.kind = "dedupe" -> dedupe(g)

\* next() running the body of a completed generator again
next_resume(g) ==
    IF g.kind = "src" THEN srcNext(g) ELSE Body([g EXCEPT !.pulls = @ + 1])

\* iterator.next(): a leaf source answers itself; a completed generator
\* answers done and runs nothing; any other generator resumes its body.
next(g) ==
    IF g.kind = "src" THEN srcNext(g)
    ELSE LET g1 == [g EXCEPT !.pulls = @ + 1] IN
         IF g.st = "done" THEN [res |-> Done, g |-> g1] ELSE Body(g1)

\* return() completing the generator without closing the iterator its loop
\* runs over
return_noClose(g) ==
    IF g.kind = "src" THEN srcReturn(g)
    ELSE [g EXCEPT !.closes = @ + 1, !.st = "done"]

\* iterator.return(): a generator suspended at a yield inside its for-of
\* closes the iterator the loop runs over (and, inside a yield*, the inner
\* iterator first); one that has not started, or is suspended at scan's
\* first yield (before the loop), just completes.
return(g) ==
    IF g.kind = "src" THEN srcReturn(g)
    ELSE LET g1 == [g EXCEPT !.closes = @ + 1, !.st = "done"] IN
         IF g.st = "yield"
         THEN [g1 EXCEPT !.up = return(g.up),
                         !.inner = IF g.inner.kind = "none" THEN NoIter
                                   ELSE return(g.inner)]
         ELSE g1

\* ------------------------------------------------------------- scenarios
\* every sequence of at most MaxLen elements of S
SeqsOf(S) == UNION {[1..k -> S] : k \in 0..MaxLen}

\* one call of a combinator: which one, on which source, with which arguments
Cfg(kind, items, cyc, failAt, accept, bad, n, initial) ==
    [kind |-> kind, items |-> items, cyc |-> cyc, failAt |-> failAt,
     accept |-> accept, bad |-> bad, n |-> n, initial |-> initial]

\* step functions that never fail, or fail on one value
Bads == {{}} \cup {{v} : v \in Vals}
\* take's n
Ns == -1..(MaxLen + 1)
\* the accumulator's initial value
Initials == {0, 3}

\* finite sources of elements, which may fail at any pull up to the one that
\* would report done
FiniteSrc == {<<items, failAt>> \in SeqsOf(Vals) \X (0..(MaxLen + 1)) :
                 failAt <= Len(items) + 1}
\* unbounded sources: a non-empty sequence repeated for ever
CyclicSrc == {items \in SeqsOf(Vals) : Len(items) > 0}
\* finite sources of sources (concat's argument list never fails)
NestedSrc == {<<items, failAt>> \in SeqsOf(Inners) \X (0..(MaxLen + 1)) :
                 failAt <= Len(items) + 1}

\* the predicates tried: every set of accepted values
Accepts == SUBSET Vals
\* the suspending family is tried with a source that may fail or a step
\* function that may fail, not both
OneFailure(async, failAt, bad) == async => (failAt = 0 \/ bad = {})

\* cfg is one of the calls under study: every combinator on finite sources,
\* take and the chain also on unbounded ones, the adapter alone (suspending
\* family only), concat and flatten on sources of sources
InitCfg(async) ==
    \/ \E k \in {"map", "dedupe", "flatMap"}, s \in FiniteSrc, b \in Bads :
          /\ OneFailure(async, s[2], b)
          /\ cfg = Cfg(k, s[1], FALSE, s[2], {}, b, 0, 0)
    \/ \E k \in {"scan", "reduce"}, s \in FiniteSrc, b \in Bads, i \in Initials :
          /\ OneFailure(async, s[2], b)
          /\ cfg = Cfg(k, s[1], FALSE, s[2], {}, b, 0, i)
    \/ \E k \in {"filter", "filterMap", "takeWhile"}, s \in FiniteSrc,
          a \in Accepts, b \in Bads :
          /\ OneFailure(async, s[2], b)
          /\ cfg = Cfg(k, s[1], FALSE, s[2], a, b, 0, 0)
    \/ \E s \in FiniteSrc, n \in Ns : cfg = Cfg("take", s[1], FALSE, s[2], {}, {}, n, 0)
    \/ \E s \in CyclicSrc, n \in Ns : cfg = Cfg("take", s, TRUE, 0, {}, {}, n, 0)
    \/ \E s \in CyclicSrc, a \in Accepts, n \in Ns :
          cfg = Cfg("chain", s, TRUE, 0, a, {}, n, 0)
    \/ \E s \in FiniteSrc, b \in Bads :
          /\ OneFailure(async, s[2], b)
          /\ cfg = Cfg("chain", s[1], FALSE, s[2], Vals, b, MaxLen, 0)
    \/ \E s \in FiniteSrc :
          /\ async
          /\ cfg = Cfg("toAsync", s[1], FALSE, s[2], {}, {}, 0, 0)
    \/ \E s \in NestedSrc : cfg = Cfg("flatten", s[1], FALSE, s[2], {}, {}, 0, 0)
    \/ \E s \in SeqsOf(Inners) : cfg = Cfg("concat", s, FALSE, 0, {}, {}, 0, 0)

\* the generator object the call of c returns; "chain" is
\* map(filter(take(source, n), predicate), fn)
MkGen(c) ==
    LET src == Source(c.items, c.cyc, c.failAt) IN
    IF c.kind = "chain"
    THEN Gen("map", Gen("filter", Gen("take", src, {}, {}, c.n, 0),
                        c.accept, {}, 0, 0), {}, c.bad, 0, 0)
    ELSE Gen(c.kind, src, c.accept, c.bad, c.n, c.initial)

\* ------------------------------------------------ the sequential consumer
vars == <<mode, cfg, gen, leaf, procs, inbox, issued, out, gen2, out2>>

InitSync ==
    /\ mode = "sync"
    /\ InitCfg(FALSE)
    /\ gen = MkGen(cfg)
    /\ leaf = NoIter /\ procs = <<>> /\ inbox = <<>> /\ issued = 0
    /\ out = <<>>
    /\ gen2 = IF cfg.kind = "dedupe" THEN MkGen(cfg) ELSE NoIter
    /\ out2 = <<>>

\* the consumer asks the outermost generator for its next element
Pull ==
    /\ mode = "sync"
    /\ gen.kind # "reduce"
    /\ Len(out) < MaxPulls
    /\ LET r == next(gen) IN
        /\ gen' = r.g
        /\ out' = Append(out, r.res)
    /\ UNCHANGED <<mode, cfg, leaf, procs, inbox, issued, gen2, out2>>

\* the consumer calls reduce(iter, fn, initial)
CallReduce ==
    /\ mode = "sync"
    /\ gen.kind = "reduce"
    /\ gen.st = "start"
    /\ LET r == reduce(gen.up, gen.bad, gen.acc) IN
        /\ gen' = [gen EXCEPT !.up = r.g, !.st = "done"]
        /\ out' = Append(out, r.res)
    /\ UNCHANGED <<mode, cfg, leaf, procs, inbox, issued, gen2, out2>>

\* the consumer asks the generator of the second dedupe call for its next
\* element
Pull2 ==
    /\ mode = "sync"
    /\ gen2.kind = "dedupe"
    /\ Len(out2) < MaxPulls
    /\ LET r == next(gen2) IN
        /\ gen2' = r.g
        /\ out2' = Append(out2, r.res)
    /\ UNCHANGED <<mode, cfg, gen, leaf, procs, inbox, issued, out>>

NextSync == Pull \/ CallReduce \/ Pull2

Spec == InitSync /\ [][NextSync]_vars

\* ===================================================== suspending family
\* An async generator object: the locals of a generator object, the requests
\* (next() calls) it has not answered yet (queue), what its body awaits
\* (wait: "up" an upstream pull, "fn" a step function, "inner" a pull inside
\* yield*) and the element in hand while the step function is awaited (cur).
\* Its body runs (st = "run") from a request until the yield, return or throw
\* answering it; requests arriving meanwhile wait in the queue.
AGen(kind, accept, bad, n, initial) ==
    [kind |-> kind, st |-> "start", accept |-> accept, bad |-> bad, n |-> n,
     count |-> 0, acc |-> initial, seen |-> {}, inner |-> NoIter,
     pulls |-> 0, closes |-> 0, queue |-> 0, wait |-> "none", cur |-> 0]

\* what reaches a generator body: it is resumed by a request, or the awaited
\* upstream pull, step function or inner pull has settled
Resumed == [t |-> "resume"]
UpSettled(r) == [t |-> "up", r |-> r]
FnSettled == [t |-> "fn"]
InnerSettled(r) == [t |-> "inner", r |-> r]

\* how a stretch of a body ends: at the for await's await of iter.next(), at
\* an await of the step function, at the await inside yield*, at a yield, or
\* with the generator completed (closing the upstream first after a break or
\* a throw inside the loop)
AwaitUp(p) == [p |-> p, eff |-> [c |-> "pull"]]
AwaitFn(p) == [p |-> p, eff |-> [c |-> "call"]]
AwaitInner(p) == [p |-> p, eff |-> [c |-> "inner"]]
AYield(p, v) == [p |-> p, eff |-> [c |-> "yield", v |-> v, at |-> "yield"]]
AFinish(p, res, close) ==
    [p |-> p, eff |-> [c |-> "finish", res |-> res, close |-> close]]

\* for await (const value of iter) { yield value; }
toAsync(p, ev) ==
    IF ev.t = "resume" THEN AwaitUp(p)
    ELSE IF ev.r.t = "val" THEN AYield(p, ev.r.v)
    ELSE AFinish(p, ev.r, FALSE)

\* for await (const value of iter) { yield await fn(value); }
mapAsync(p, ev) ==
    CASE ev.t = "resume" -> AwaitUp(p)
      [] ev.t = "up" ->
            IF ev.r.t = "val" THEN AwaitFn([p EXCEPT !.cur = ev.r.v])
            ELSE AFinish(p, ev.r, FALSE)
      [] ev.t = "fn" ->
            LET c == fn(p.bad, p.cur) IN
            IF c.t = "throw" THEN AFinish(p, c, TRUE) ELSE AYield(p, c.v)

\* filterAsync without the await: the promise of predicate(value) is truthy
filterAsync_noAwait(p, ev) ==
    CASE ev.t = "resume" -> AwaitUp(p)
      [] ev.t = "up" ->
            IF ev.r.t = "val" THEN AwaitFn([p EXCEPT !.cur = ev.r.v])
            ELSE AFinish(p, ev.r, FALSE)
      [] ev.t = "fn" -> AYield(p, p.cur)

\* for await (...) { if (await predicate(value)) yield value; }
filterAsync(p, ev) ==
    CASE ev.t = "resume" -> AwaitUp(p)
      [] ev.t = "up" ->
            IF ev.r.t = "val" THEN AwaitFn([p EXCEPT !.cur = ev.r.v])
            ELSE AFinish(p, ev.r, FALSE)
      [] ev.t = "fn" ->
            LET c == predicate(p.accept, p.bad, p.cur) IN
            IF c.t = "throw" THEN AFinish(p, c, TRUE)
            ELSE IF c.v THEN AYield(p, p.cur) ELSE AwaitUp(p)

\* let result = initial;
\* for await (...) { result = await fn(result, value); } return result;
reduceAsync(p, ev) ==
    CASE ev.t = "resume" -> AwaitUp(p)
      [] ev.t = "up" ->
            IF ev.r.t = "val" THEN AwaitFn([p EXCEPT !.cur = ev.r.v])
            ELSE IF ev.r.t = "done" THEN AFinish(p, Val(p.acc), FALSE)
            ELSE AFinish(p, ev.r, FALSE)
      [] ev.t = "fn" ->
            LET c == accumulate(p.bad, p.acc, p.cur) IN
            IF c.t = "throw" THEN AFinish(p, c, TRUE)
            ELSE AwaitUp([p EXCEPT !.acc = c.v])

\* let acc = initial; yield acc;
\* for await (...) { acc = await fn(acc, value); yield acc; }
scanAsync(p, ev) ==
    CASE ev.t = "resume" ->
            IF p.st = "start"
            THEN [p |-> p, eff |-> [c |-> "yield", v |-> p.acc, at |-> "yield0"]]
            ELSE AwaitUp(p)
      [] ev.t = "up" ->
            IF ev.r.t = "val" THEN AwaitFn([p EXCEPT !.cur = ev.r.v])
            ELSE AFinish(p, ev.r, FALSE)
      [] ev.t = "fn" ->
            LET c == accumulate(p.bad, p.acc, p.cur) IN
            IF c.t = "throw" THEN AFinish(p, c, TRUE)
            ELSE AYield([p EXCEPT !.acc = c.v], c.v)

\* yield* inner, after the pull on the inner iterator has settled
yieldStarAsync(p, r) ==
    IF r.t = "val" THEN AYield(p, r.v)
    ELSE IF r.t = "throw" THEN AFinish([p EXCEPT !.inner = NoIter], r, TRUE)
    ELSE AwaitUp([p EXCEPT !.inner = NoIter])

\* for await (const iterable of iterables) { yield* iterable; }
concatAsync(p, ev) ==
    CASE ev.t = "resume" ->
            IF p.inner.kind # "none" THEN AwaitInner(p) ELSE AwaitUp(p)
      [] ev.t = "up" ->
            IF ev.r.t = "val"
            THEN AwaitInner([p EXCEPT !.inner = Source(ev.r.v, FALSE, 0)])
            ELSE AFinish(p, ev.r, FALSE)
      [] ev.t = "inner" -> yieldStarAsync(p, ev.r)

\* for await (const inner of iter) { yield* inner; }
flattenAsync(p, ev) ==
    CASE ev.t = "resume" ->
            IF p.inner.kind # "none" THEN AwaitInner(p) ELSE AwaitUp(p)
      [] ev.t = "up" ->
            IF ev.r.t = "val"
            THEN AwaitInner([p EXCEPT !.inner = Source(ev.r.v, FALSE, 0)])
            ELSE AFinish(p, ev.r, FALSE)
      [] ev.t = "inner" -> yieldStarAsync(p, ev.r)

\* for await (const value of iter) { yield* fn(value); }
flatMapAsync(p, ev) ==
    CASE ev.t = "resume" ->
            IF p.inner.kind # "none" THEN AwaitInner(p) ELSE AwaitUp(p)
      [] ev.t = "up" ->
            IF ev.r.t # "val" THEN AFinish(p, ev.r, FALSE)
            ELSE LET c == fnIter(p.bad, ev.r.v) IN
                 IF c.t = "throw" THEN AFinish(p, c, TRUE)
                 ELSE AwaitInner([p EXCEPT !.inner = Source(c.v, FALSE, 0)])
      [] ev.t = "inner" -> yieldStarAsync(p, ev.r)

\* for await (...) { const result = await fn(value);
\*   if (result != null) yield result; }
filterMapAsync(p, ev) ==
    CASE ev.t = "resume" -> AwaitUp(p)
      [] ev.t = "up" ->
            IF ev.r.t = "val" THEN AwaitFn([p EXCEPT !.cur = ev.r.v])
            ELSE AFinish(p, ev.r, FALSE)
      [] ev.t = "fn" ->
            LET c == fnOrNull(p.accept, p.bad, p.cur) IN
            IF c.t = "throw" THEN AFinish(p, c, TRUE)
            ELSE IF c.t # "null" THEN AYield(p, c.v) ELSE AwaitUp(p)

\* let count = 0;
\* for await (...) { if (count >= n) break; yield value; count++; }
takeAsync(p, ev) ==
    IF ev.t = "resume"
    THEN AwaitUp(IF p.st = "yield" THEN [p EXCEPT !.count = @ + 1] ELSE p)
    ELSE IF ev.r.t # "val" THEN AFinish(p, ev.r, FALSE)
    ELSE IF takeBreak(p.count, p.n) THEN AFinish(p, Done, TRUE)
    ELSE AYield(p, ev.r.v)

\* for await (...) { if (!(await predicate(value))) break; yield value; }
takeWhileAsync(p, ev) ==
    CASE ev.t = "resume" -> AwaitUp(p)
      [] ev.t = "up" ->
            IF ev.r.t = "val" THEN AwaitFn([p EXCEPT !.cur = ev.r.v])
            ELSE AFinish(p, ev.r, FALSE)
      [] ev.t = "fn" ->
            LET c == predicate(p.accept, p.bad, p.cur) IN
            IF c.t = "throw" THEN AFinish(p, c, TRUE)
            ELSE IF ~c.v THEN AFinish(p, Done, TRUE)
            ELSE AYield(p, p.cur)

\* const seen = new Set(); for await (...) { const key = getKey(value);
\*   if (!seen.has(key)) { seen.add(key); yield value; } }
dedupeAsync(p, ev) ==
    IF ev.t = "resume" THEN AwaitUp(p)
    ELSE IF ev.r.t # "val" THEN AFinish(p, ev.r, FALSE)
    ELSE LET c == getKey(p.bad, ev.r.v) IN
         IF c.t = "throw" THEN AFinish(p, c, TRUE)
         ELSE IF c.v \notin p.seen
             THEN AYield([p EXCEPT !.seen = @ \cup {c.v}], ev.r.v)
         ELSE AwaitUp(p)

\* One stretch of an async body, by its kind.
ABody(p, ev) ==
    CASE p.kind = "toAsync" -> toAsync(p, ev)
      [] p.kind = "map" -> mapAsync(p, ev)
      [] p.kind = "filter" -> filterAsync(p, ev)
      [] p.kind = "reduce" -> reduceAsync(p, ev)
      [] p.kind = "scan" -> scanAsync(p, ev)
      [] p.kind = "concat" -> concatAsync(p, ev)
      [] p.kind = "flatten" -> flattenAsync(p, ev)
      [] p.kind = "flatMap" -> flatMapAsync(p, ev)
      [] p.kind = "filterMap" -> filterMapAsync(p, ev)
      [] p.kind = "take" -> takeAsync(p, ev)
      [] p.kind = "takeWhile" -> takeWhileAsync(p, ev)
      [] p.kind = "dedupe" -> dedupeAsync(p, ev)

\* ------------------------------------------- running the async generators
\* In the operators below A is the state of a chain:
\* [leaf, procs, inbox, out].

\* procs[i] answers the request at the head of its queue with res: the
\* promise its caller awaits settles.  The caller is procs[i + 1], whose
\* continuation runs later, or the consumer.
Settle(A, i, res) ==
    LET B == [A EXCEPT !.procs[i].queue = @ - 1] IN
    IF i = Len(A.procs) THEN [B EXCEPT !.out = Append(@, res)]
    ELSE [B EXCEPT !.inbox[i + 1] = Append(@, res)]

RECURSIVE DrainQueue(_, _)
\* a completed async generator answers every request still queued with done
DrainQueue(A, i) ==
    IF A.procs[i].queue = 0 THEN A ELSE DrainQueue(Settle(A, i, Done), i)

RECURSIVE ReturnUp(_, _)
\* procs[i] leaves its for await by a break or a throw: return() on its
\* upstream.  An async generator suspended at a yield inside its own loop
\* completes and closes its upstream (and the inner iterator of a yield*) in
\* turn; one not started, or at scan's first yield, just completes.
ReturnUp(A, i) ==
    IF i = 1 THEN [A EXCEPT !.leaf = srcReturn(@)]
    ELSE LET q == A.procs[i - 1]
             B == [A EXCEPT !.procs[i - 1].closes = @ + 1] IN
         IF q.st = "yield"
         THEN ReturnUp([B EXCEPT !.procs[i - 1].st = "done",
                                 !.procs[i - 1].inner =
                                     IF q.inner.kind = "none" THEN NoIter
                                     ELSE srcReturn(q.inner)],
                       i - 1)
         ELSE IF q.st \in {"start", "yield0"}
         THEN [B EXCEPT !.procs[i - 1].st = "done"]
         ELSE B

RECURSIVE Run(_, _, _), Request(_, _)

\* the awaited call iter.next() of procs[i]: on the leaf source, whose answer
\* is in flight until the continuation takes it, or on the async generator
\* below
RequestUp(A, i) ==
    IF i = 1
    THEN LET r == srcNext(A.leaf) IN
         [A EXCEPT !.leaf = r.g, !.inbox[1] = Append(@, r.res)]
    ELSE Request(A, i - 1)

\* The body of procs[i] runs on ev until it awaits or completes.  A yield
\* answers the request at the head of the queue and, when another request is
\* queued, the body is resumed at once.
Run(A, i, ev) ==
    LET e == ABody(A.procs[i], ev) IN
    CASE e.eff.c = "pull" ->
            RequestUp([A EXCEPT !.procs[i] = [e.p EXCEPT !.st = "run", !.wait = "up"]], i)
      [] e.eff.c = "call" ->
            [A EXCEPT !.procs[i] = [e.p EXCEPT !.st = "run", !.wait = "fn"]]
      [] e.eff.c = "inner" ->
            [A EXCEPT !.procs[i] = [e.p EXCEPT !.st = "run", !.wait = "inner"]]
      [] e.eff.c = "yield" ->
            LET B == Settle([A EXCEPT !.procs[i] =
                                [e.p EXCEPT !.st = e.eff.at, !.wait = "none"]],
                            i, Val(e.eff.v)) IN
            IF B.procs[i].queue > 0 THEN Run(B, i, Resumed) ELSE B
      [] e.eff.c = "finish" ->
            LET B == IF e.eff.close THEN ReturnUp(A, i) ELSE A IN
            DrainQueue(Settle([B EXCEPT !.procs[i] =
                                  [e.p EXCEPT !.st = "done", !.wait = "none"]],
                              i, e.eff.res), i)

\* next() resuming the body whether or not it is running: no request queue
Request_noQueue(A, i) ==
    LET B == [A EXCEPT !.procs[i].queue = @ + 1, !.procs[i].pulls = @ + 1] IN
    IF A.procs[i].st = "done" THEN Settle(B, i, Done) ELSE Run(B, i, Resumed)

\* next() on the async generator procs[i]: the request is queued; a suspended
\* generator is resumed, a completed one answers done, a running one goes on
\* and finds the request when it yields.
Request(A, i) ==
    LET B == [A EXCEPT !.procs[i].queue = @ + 1, !.procs[i].pulls = @ + 1] IN
    IF A.procs[i].st \in {"start", "yield", "yield0"} THEN Run(B, i, Resumed)
    ELSE IF A.procs[i].st = "done" THEN Settle(B, i, Done)
    ELSE B

\* the calls of the suspending family: the combinator applied to
\* toAsync(source); concatAsync takes its sources as arguments; "chain" is
\* mapAsync(filterAsync(takeAsync(source, n), predicate), fn); "toAsync" is
\* the adapter alone
MkProcs(c) ==
    CASE c.kind = "toAsync" -> <<AGen("toAsync", {}, {}, 0, 0)>>
      [] c.kind = "concat" -> <<AGen("concat", {}, {}, 0, 0)>>
      [] c.kind = "chain" ->
            <<AGen("take", {}, {}, c.n, 0), AGen("filter", c.accept, {}, 0, 0),
              AGen("map", {}, c.bad, 0, 0)>>
      [] OTHER ->
            <<AGen("toAsync", {}, {}, 0, 0),
              AGen(c.kind, c.accept, c.bad, c.n, c.initial)>>

\* the chain as one record, and the variables after a step to B
Chain == [leaf |-> leaf, procs |-> procs, inbox |-> inbox, out |-> out]
Becomes(B) ==
    /\ leaf' = B.leaf
    /\ procs' = B.procs
    /\ inbox' = B.inbox
    /\ out' = B.out

InitAsync ==
    /\ mode = "async"
    /\ InitCfg(TRUE)
    /\ gen = NoIter
    /\ leaf = Source(cfg.items, cfg.cyc, cfg.failAt)
    /\ procs = MkProcs(cfg)
    /\ inbox = [i \in 1..Len(procs) |-> <<>>]
    /\ issued = 0
    /\ out = <<>>
    /\ gen2 = NoIter
    /\ out2 = <<>>

Top == Len(procs)

\* the consumer calls next() on the outermost async generator, whether or not
\* its earlier pulls have settled
APull ==
    /\ mode = "async"
    /\ procs[Top].kind # "reduce"
    /\ issued < MaxPulls
    /\ issued' = issued + 1
    /\ Becomes(Request(Chain, Top))
    /\ UNCHANGED <<mode, cfg, gen, gen2, out2>>

\* the consumer calls reduceAsync(iter, fn, initial)
ACallReduce ==
    /\ mode = "async"
    /\ procs[Top].kind = "reduce"
    /\ issued = 0
    /\ issued' = 1
    /\ Becomes(Request(Chain, Top))
    /\ UNCHANGED <<mode, cfg, gen, gen2, out2>>

\* the continuation of procs[i] runs on its settled upstream pull
Deliver(i) ==
    /\ mode = "async"
    /\ procs[i].wait = "up"
    /\ inbox[i] # <<>>
    /\ Becomes(Run([Chain EXCEPT !.inbox[i] = Tail(@)], i, UpSettled(Head(inbox[i]))))
    /\ UNCHANGED <<mode, cfg, gen, issued, gen2, out2>>

\* the step function procs[i] awaits settles
FnSettle(i) ==
    /\ mode = "async"
    /\ procs[i].wait = "fn"
    /\ Becomes(Run(Chain, i, FnSettled))
    /\ UNCHANGED <<mode, cfg, gen, issued, gen2, out2>>

\* the pull on the inner iterator that procs[i] awaits inside yield* settles
InnerSettle(i) ==
    /\ mode = "async"
    /\ procs[i].wait = "inner"
    /\ LET r == srcNext(procs[i].inner) IN
        Becomes(Run([Chain EXCEPT !.procs[i].inner = r.g], i, InnerSettled(r.res)))
    /\ UNCHANGED <<mode, cfg, gen, issued, gen2, out2>>

NextAsync ==
    \/ APull
    \/ ACallReduce
    \/ \E i \in 1..Len(procs) : Deliver(i)
    \/ \E i \in 1..Len(procs) : FnSettle(i)
    \/ \E i \in 1..Len(procs) : InnerSettle(i)

SpecAsync == InitAsync /\ [][NextAsync]_vars

\* both families
SpecAll == (InitSync \/ InitAsync) /\ [][NextSync \/ NextAsync]_vars

\* ------------------------------------------- a consumer that may give up
\* the consumer abandons the generator: return() on it, as a break out of a
\* for-of over it does
Close ==
    /\ mode = "sync"
    /\ gen.kind # "reduce"
    /\ gen.closes = 0
    /\ gen' = return(gen)
    /\ UNCHANGED <<mode, cfg, leaf, procs, inbox, issued, out, gen2, out2>>

\* the consumer abandons the async generator once its requests have been
\* answered: return() on it, as a break out of a for await over it does
AClose ==
    /\ mode = "async"
    /\ procs[Top].kind # "reduce"
    /\ issued = Len(out)
    /\ procs[Top].closes = 0
    /\ Becomes(ReturnUp(Chain, Top + 1))
    /\ UNCHANGED <<mode, cfg, gen, issued, gen2, out2>>

\* both families, with a consumer that may give up
SpecClose ==
    (InitSync \/ InitAsync) /\ [][NextSync \/ NextAsync \/ Close \/ AClose]_vars

\* ------------------------------------------------------------ vocabulary
RECURSIVE Leaf(_)
\* the source at the bottom of a chain of generator objects
Leaf(g) == IF g.kind = "src" THEN g ELSE Leaf(g.up)

\* the source at the bottom of the chain, in either family
TheLeaf == IF mode = "sync" THEN Leaf(gen) ELSE leaf

\* the i-th element the source of c holds (an unbounded source repeats)
Item(c, i) == c.items[((i - 1) % Len(c.items)) + 1]
\* the source of c neither fails nor do the step functions
Healthy(c) == c.failAt = 0 /\ c.bad = {}
Min(a, b) == IF a < b THEN a ELSE b
Max(a, b) == IF a > b THEN a ELSE b
\* the consumer has received exactly the elements want, in order, and done
\* on every pull after them
Received(want) ==
    \A i \in 1..Len(out) :
        out[i] = IF i <= Len(want) THEN Val(want[i]) ELSE Done

\* ---------------------------------------------------------------- C2
\* C2 (as claimed): take(source, n) and takeAsync(source, n) never pull an
\* upstream element beyond the n-th, whatever the consumer pulls, n <= 0
\* included: the elements the source has handed out (at most one per pull
\* issued on it) number at most n.
C2_TakePullsAtMostN ==
    cfg.kind = "take" => TheLeaf.pos <= Max(cfg.n, 0)

\* ---------------------------------------------------------------- C3
\* every result the consumer has received is an element
AllVals == \A i \in 1..Len(out) : out[i].t = "val"

\* C3: no generator of the sequential family pulls its upstream before the
\* consumer's first request, and once the consumer has pulled n elements from
\* map(filter(take(source, N), p), f), the source has been pulled exactly k
\* times, k <= N being the position of the n-th element p accepts; take has
\* been pulled k times and filter n times: nothing is read ahead.
C3_StrictlyLazy ==
    /\ (mode = "sync" /\ out = <<>>) => Leaf(gen).pulls = 0
    /\ (mode = "sync" /\ cfg.kind = "chain" /\ AllVals /\ out # <<>>) =>
          \E k \in 1..cfg.n :
              /\ Item(cfg, k) \in cfg.accept
              /\ Cardinality({j \in 1..k : Item(cfg, j) \in cfg.accept}) = Len(out)
              /\ Leaf(gen).pulls = k
              /\ gen.up.up.pulls = k
              /\ gen.up.pulls = Len(out)

\* two elements have been pulled through the chain over an unbounded source,
\* the filter having rejected an element on the way
C3_Witness ==
    /\ mode = "sync" /\ cfg.kind = "chain" /\ cfg.cyc /\ AllVals
    /\ Len(out) = 2 /\ Leaf(gen).pulls = 3

\* ---------------------------------------------------------------- C7
\* how many elements take(s, n) is to yield: min(max(n, 0), len(s))
TakeLen(c) ==
    IF c.cyc THEN Max(c.n, 0) ELSE Min(Max(c.n, 0), Len(c.items))

\* C7: draining take(s, n) yields exactly the first min(max(n, 0), len(s))
\* elements of s in order and then done, also for n <= 0, for an empty s and
\* for an unbounded s.
C7_TakePrefix ==
    (mode = "sync" /\ cfg.kind = "take" /\ Healthy(cfg)) =>
        Received([i \in 1..TakeLen(cfg) |-> Item(cfg, i)])

\* take over an unbounded source has yielded n = 2 elements and reported done
C7_Witness ==
    /\ mode = "sync" /\ cfg.kind = "take" /\ cfg.cyc /\ cfg.n = 2
    /\ Len(out) = 3 /\ out[2].t = "val" /\ out[3] = Done

\* ---------------------------------------------------------------- C8
\* the length of the longest prefix of the source whose elements are accepted
PrefixLen(c) ==
    IF \A i \in 1..Len(c.items) : c.items[i] \in c.accept THEN Len(c.items)
    ELSE (CHOOSE i \in 1..Len(c.items) :
            /\ c.items[i] \notin c.accept
            /\ \A j \in 1..(i - 1) : c.items[j] \in c.accept) - 1

\* C8: takeWhile yields exactly the longest accepted prefix, reports done at
\* the first rejected element without yielding it, and from then on pulls its
\* upstream no more: the upstream has been pulled once per consumer pull up to
\* the rejected element (or the end of the source) and never after.
C8_TakeWhilePrefix ==
    (mode = "sync" /\ cfg.kind = "takeWhile" /\ Healthy(cfg)) =>
        /\ Received(SubSeq(cfg.items, 1, PrefixLen(cfg)))
        /\ gen.up.pulls = Min(Len(out), PrefixLen(cfg) + 1)

\* takeWhile has rejected an element, was pulled again, and a later element of
\* the source would satisfy the predicate
C8_Witness ==
    /\ mode = "sync" /\ cfg.kind = "takeWhile" /\ Healthy(cfg)
    /\ PrefixLen(cfg) = 1 /\ Len(cfg.items) = 3 /\ cfg.items[3] \in cfg.accept
    /\ Len(out) = 4 /\ out[2] = Done

\* ---------------------------------------------------------------- C9
RECURSIVE FoldLeft(_, _, _)
\* fn(...fn(fn(initial, s1), s2)..., si): the left fold over the first i items
FoldLeft(items, i, initial) ==
    IF i = 0 THEN initial
    ELSE accumulate({}, FoldLeft(items, i - 1, initial), items[i]).v

\* C9: draining scan(s, fn, initial) yields len(s) + 1 elements, the first
\* being initial and the (i+1)-th the left fold over the first i elements.
C9_ScanFolds ==
    (mode = "sync" /\ cfg.kind = "scan" /\ Healthy(cfg)) =>
        Received([i \in 1..(Len(cfg.items) + 1) |->
                    FoldLeft(cfg.items, i - 1, cfg.initial)])

\* scan of an empty source has yielded initial and then reported done
C9_Witness ==
    /\ mode = "sync" /\ cfg.kind = "scan" /\ cfg.items = <<>> /\ Healthy(cfg)
    /\ out = <<Val(cfg.initial), Done>>

\* scan of a full-length source has been drained
C9_WitnessFull ==
    /\ mode = "sync" /\ cfg.kind = "scan" /\ Healthy(cfg)
    /\ Len(cfg.items) = MaxLen /\ Len(out) = MaxLen + 2

\* ---------------------------------------------------------------- C10
\* the key of a value, as the caller's getKey computes it
KeyOf(v) == getKey({}, v).v
\* the positions of the source holding the first element of their key
FirstOfKey(items) ==
    {i \in 1..Len(items) : \A j \in 1..(i - 1) : KeyOf(items[j]) # KeyOf(items[i])}
RECURSIVE Pick(_, _, _)
\* the elements of items at the positions in P, from position i on, in order
Pick(items, P, i) ==
    IF i > Len(items) THEN <<>>
    ELSE (IF i \in P THEN <<items[i]>> ELSE <<>>) \o Pick(items, P, i + 1)

\* C10: draining dedupe(s, getKey) yields exactly the first occurrence of each
\* key, in source order; the keys yielded are pairwise distinct and every key
\* of s is yielded once.
C10_DedupeFirstWins ==
    (mode = "sync" /\ cfg.kind = "dedupe" /\ Healthy(cfg)) =>
        /\ Received(Pick(cfg.items, FirstOfKey(cfg.items), 1))
        /\ \A i, j \in 1..Len(out) :
              (i # j /\ out[i].t = "val" /\ out[j].t = "val")
                  => KeyOf(out[i].v) # KeyOf(out[j].v)
        /\ (\E i \in 1..Len(out) : out[i] = Done) =>
              \A k \in 1..Len(cfg.items) :
                  \E i \in 1..Len(out) :
                      out[i].t = "val" /\ KeyOf(out[i].v) = KeyOf(cfg.items[k])

\* dedupe has dropped an element whose key was seen with another payload
C10_Witness ==
    /\ mode = "sync" /\ cfg.kind = "dedupe" /\ Healthy(cfg)
    /\ cfg.items = <<0, 1, 2>>
    /\ out = <<Val(0), Val(1), Done>>

\* ---------------------------------------------------------------- C1
RECURSIVE SyncPulls(_, _)
\* k pulls on the generator object g of the sequential family: the results
\* and the generator afterwards
SyncPulls(g, k) ==
    IF k = 0 THEN [outs |-> <<>>, g |-> g]
    ELSE LET r == next(g)
             rest == SyncPulls(r.g, k - 1)
         IN  [outs |-> <<r.res>> \o rest.outs, g |-> rest.g]

\* the sequential call of c after k consumer pulls (reduce: after the call)
SyncRef(c, k) ==
    IF c.kind = "reduce" /\ k > 0
    THEN LET r == reduce(Source(c.items, c.cyc, c.failAt), c.bad, c.initial) IN
         [outs |-> <<r.res>>, g |-> r.g]
    ELSE SyncPulls(MkGen(c), k)

\* what a consumer reads off the source of c itself: its elements, the
\* failure if it fails, done after either
SourceRef(c, k) ==
    [i \in 1..k |->
        IF c.failAt # 0 /\ i >= c.failAt
            THEN (IF i = c.failAt THEN Throw(ErrSrc) ELSE Done)
        ELSE IF i <= Len(c.items) THEN Val(c.items[i]) ELSE Done]

\* every pull the consumer issued has settled and no async body is running
Quiet == issued = Len(out) /\ \A i \in 1..Len(procs) : procs[i].st # "run"

\* C1: the results the consumer of a suspending combinator on toAsync(input)
\* has received are those the same number of pulls on the sequential
\* combinator on input give (elements, order, length, the done or the failure
\* ending them), and once its pulls have settled the source has been pulled,
\* advanced and closed as by the sequential one; toAsync(input) alone gives
\* the elements of input in order.
C1_AsyncEqualsSync ==
    mode = "async" =>
        IF cfg.kind = "toAsync" THEN out = SourceRef(cfg, Len(out))
        ELSE LET ref == SyncRef(cfg, Len(out)) IN
             /\ out = ref.outs
             /\ Quiet => leaf = Leaf(ref.g)

\* dedupeAsync(toAsync([0, 1, 2]), getKey) has been drained by a consumer
\* that issued its pulls ahead of the answers
C1_Witness ==
    /\ mode = "async" /\ cfg.kind = "dedupe" /\ cfg.items = <<0, 1, 2>>
    /\ out = <<Val(0), Val(1), Done, Done>> /\ Quiet /\ procs[1].pulls = 4

\* ---------------------------------------------------------------- C4
\* the pulls procs[i] has issued on its upstream that have not been answered
\* or whose answer its continuation has not run on yet
Outstanding(i) == Len(inbox[i]) + (IF i > 1 THEN procs[i - 1].queue ELSE 0)

\* the awaits in flight in the chain: pulls on the source, step function
\* calls and pulls on inner iterators
InFlight ==
    Len(inbox[1])
    + Cardinality({i \in 1..Len(procs) : procs[i].wait \in {"fn", "inner"}})

RECURSIVE IsSubSeqFrom(_, _, _, _)
\* the results r[i..] are elements the source of c holds at increasing
\* positions from j on (position j is bounded by the pulls a run can issue)
IsSubSeqFrom(r, i, c, j) ==
    IF i > Len(r) \/ r[i].t # "val" THEN TRUE
    ELSE IF j > Len(c.items) /\ ~c.cyc THEN FALSE
    ELSE IF j > MaxPulls + MaxLen + 1 THEN FALSE
    ELSE IF Item(c, j) = r[i].v /\ IsSubSeqFrom(r, i + 1, c, j + 1) THEN TRUE
    ELSE IsSubSeqFrom(r, i, c, j + 1)

\* C4: whatever pulls the consumer has issued ahead, every async generator of
\* a chain has at most one pull outstanding on its upstream, and none while
\* it awaits a step function or an inner iterator; in the whole chain at most
\* one source pull or step function call is in flight; the combinators that
\* hand elements on unchanged deliver them in upstream order.
C4_OnePullAtATime ==
    mode = "async" =>
        /\ \A i \in 1..Len(procs) :
              /\ Outstanding(i) <= 1
              /\ procs[i].wait # "up" => Outstanding(i) = 0
        /\ InFlight <= 1
        /\ cfg.kind \in {"toAsync", "filter", "take", "takeWhile", "dedupe"}
              => IsSubSeqFrom(out, 1, cfg, 1)

\* the consumer has three pulls waiting on mapAsync(filterAsync(takeAsync))
\* while the chain awaits a step function on its second source element
C4_Witness ==
    /\ mode = "async" /\ cfg.kind = "chain"
    /\ issued - Len(out) = 3
    /\ leaf.pulls = 2
    /\ \E i \in 1..Len(procs) : procs[i].wait = "fn"

\* ---------------------------------------------------------------- C5
\* the combinators that take a step function
StepKinds == {"map", "filter", "filterMap", "scan", "takeWhile", "dedupe", "flatMap"}

\* the step function of c fails on the k-th upstream element: it is the first
\* element of the source the step function fails on, the source hands it out,
\* and the combinator gets that far (takeWhile stops at a rejected element)
FailsOn(c, k) ==
    /\ c.kind \in StepKinds
    /\ k \in 1..Len(c.items)
    /\ c.items[k] \in c.bad
    /\ \A j \in 1..(k - 1) : c.items[j] \notin c.bad
    /\ c.failAt = 0 \/ c.failAt > k
    /\ c.kind = "takeWhile" => \A j \in 1..(k - 1) : c.items[j] \in c.accept

RECURSIVE SumTo(_, _)
SumTo(items, k) == IF k = 0 THEN 0 ELSE items[k] + SumTo(items, k - 1)

\* the outputs the first k elements of the source give rise to
OutputsOf(c, k) ==
    CASE c.kind \in {"map", "takeWhile"} -> k
      [] c.kind = "scan" -> k + 1
      [] c.kind \in {"filter", "filterMap"} ->
            Cardinality({j \in 1..k : c.items[j] \in c.accept})
      [] c.kind = "dedupe" -> Cardinality(FirstOfKey(c.items) \cap 1..k)
      [] c.kind = "flatMap" -> SumTo(c.items, k)

\* C5 (as claimed): when the step function fails on the k-th upstream element
\* the consumer observes that failure on its k-th request, and no element
\* after it.
C5_FailureAtKthRequest ==
    \A k \in 1..MaxLen :
        FailsOn(cfg, k) =>
            \A i \in 1..Len(out) :
                /\ i = k => out[i] = Throw(ErrStep)
                /\ i > k => out[i].t # "val"

\* C5 (amended): when the step function fails on the k-th upstream element,
\* the consumer observes exactly that failure on the request that follows the
\* outputs of the first k - 1 elements (the k-th for map and takeWhile, the
\* (k+1)-th for scan), elements before it and done on every request after it.
C5_FailureAtItsPull ==
    \A k \in 1..MaxLen :
        FailsOn(cfg, k) =>
            LET e == OutputsOf(cfg, k - 1) + 1 IN
            \A i \in 1..Len(out) :
                /\ i < e => out[i].t = "val"
                /\ i = e => out[i] = Throw(ErrStep)
                /\ i > e => out[i] = Done

\* scanAsync's step function failed on the second element: the consumer got
\* two accumulators, the failure on its third request and done on the fourth
C5_Witness ==
    /\ mode = "async" /\ cfg.kind = "scan" /\ FailsOn(cfg, 2)
    /\ Len(out) = 4 /\ out[2].t = "val" /\ out[3] = Throw(ErrStep) /\ out[4] = Done

\* ---------------------------------------------------------------- C6
\* the results of k pulls on the call of c with a source that never fails
HealthyRef(c, k) ==
    IF c.kind = "toAsync" THEN SourceRef([c EXCEPT !.failAt = 0], k)
    ELSE SyncRef([c EXCEPT !.failAt = 0], k).outs

\* the failure of the source has been thrown and not reached the consumer yet
ErrSrcInFlight ==
    \E i \in 1..Len(inbox) : \E j \in 1..Len(inbox[i]) : inbox[i][j] = Throw(ErrSrc)

\* C6: once a pull on the source has failed, the consumer's pull that led to
\* it settles with that very failure, whatever combinators are in between
\* (in the suspending family it may still be on its way up the chain); the
\* results before it are the elements the same call gives on a source that
\* does not fail, done follows it, and no failure of the source is reported
\* that the source did not throw.
C6_SourceFailureSurfaces ==
    /\ TheLeaf.threw =>
          \/ mode = "async" /\ ErrSrcInFlight /\ AllVals
          \/ \E i \in 1..Len(out) :
                /\ out[i] = Throw(ErrSrc)
                /\ SubSeq(out, 1, i - 1) = HealthyRef(cfg, i - 1)
                /\ SubSeq(out, 1, i - 1) = [j \in 1..(i - 1) |-> Val(out[j].v)]
                /\ \A j \in (i + 1)..Len(out) : out[j] = Done
    /\ ~TheLeaf.threw => \A i \in 1..Len(out) : out[i] # Throw(ErrSrc)

\* the source failed on its second pull under map(filter(take(..))) and the
\* consumer got an element, the failure and done
C6_Witness ==
    /\ mode = "sync" /\ cfg.kind = "chain" /\ cfg.failAt = 2
    /\ Len(out) = 3 /\ out[1].t = "val" /\ out[2] = Throw(ErrSrc) /\ out[3] = Done

\* the same under mapAsync(filterAsync(takeAsync(..)))
C6_WitnessAsync ==
    /\ mode = "async" /\ cfg.kind = "chain" /\ cfg.failAt = 2
    /\ Len(out) = 3 /\ out[1].t = "val" /\ out[2] = Throw(ErrSrc) /\ out[3] = Done

\* ---------------------------------------------------------------- C11
\* the positions of the source of c whose elements the predicate accepts
Accepted(c) == {i \in 1..Len(c.items) : c.items[i] \in c.accept}
\* the position of the m-th accepted element of the source of c
NthAccepted(c, m) ==
    CHOOSE k \in 1..Len(c.items) :
        k \in Accepted(c) /\ Cardinality(Accepted(c) \cap 1..k) = m

\* C11: the requests on filter(s, p) return, in order, exactly the elements
\* of s that p accepts and then done: a rejected element never costs the
\* consumer a request, the upstream is pulled on within the same request up
\* to the next accepted element or the end of s.
C11_FilterSubsequence ==
    (mode = "sync" /\ cfg.kind = "filter" /\ Healthy(cfg)) =>
        /\ Received(Pick(cfg.items, Accepted(cfg), 1))
        /\ gen.up.pulls =
              IF Len(out) = 0 THEN 0
              ELSE IF Len(out) <= Cardinality(Accepted(cfg))
                  THEN NthAccepted(cfg, Len(out))
              ELSE Len(cfg.items) + 1

\* filter has dropped the element between two accepted ones and a rejected
\* last element before it reported done
C11_Witness ==
    /\ mode = "sync" /\ cfg.kind = "filter" /\ Healthy(cfg)
    /\ cfg.items = <<0, 1, 2>> /\ cfg.accept = {0, 2}
    /\ out = <<Val(0), Val(2), Done>>

\* ---------------------------------------------------------------- C12
\* C12: the requests on map(s, fn) with a fn that does not fail return fn of
\* the first, second, ... element of s, len(s) of them, and then done; done
\* is reported on the request on which s reports done, and each request up
\* to that one has pulled s exactly once.
C12_MapPointwise ==
    (mode = "sync" /\ cfg.kind = "map" /\ Healthy(cfg)) =>
        /\ Received([i \in 1..Len(cfg.items) |-> fn({}, cfg.items[i]).v])
        /\ gen.up.pulls = Min(Len(out), Len(cfg.items) + 1)
        /\ Leaf(gen).st = "done" <=> (\E i \in 1..Len(out) : out[i] = Done)

\* map over a full-length source has been drained
C12_Witness ==
    /\ mode = "sync" /\ cfg.kind = "map" /\ Healthy(cfg)
    /\ cfg.items = <<2, 0, 1>>
    /\ out = <<Val(4), Val(0), Val(2), Done>>

\* ---------------------------------------------------------------- C13
RECURSIVE Flat(_, _), SumLen(_, _)
\* the inner sequences items[i..] laid end to end
Flat(items, i) ==
    IF i > Len(items) THEN <<>> ELSE items[i] \o Flat(items, i + 1)
\* the number of elements the first j inner sequences hold
SumLen(items, j) == IF j = 0 THEN 0 ELSE Len(items[j]) + SumLen(items, j - 1)
\* the inner sequence the m-th element of the concatenation lies in
InnerOf(items, m) ==
    CHOOSE j \in 1..Len(items) :
        SumLen(items, j - 1) < m /\ m <= SumLen(items, j)

\* C13: the requests on flatten(ss) return the elements of the inner sources
\* laid end to end (outer order, then inner order) and then done; empty inner
\* sources give nothing and do not end the output; the outer source has been
\* pulled just as far as the inner source of the last element returned, so
\* no outer element is pulled before the inner source before it is
\* exhausted.
C13_FlattenOuterMajor ==
    (mode = "sync" /\ cfg.kind = "flatten" /\ Healthy(cfg)) =>
        /\ Received(Flat(cfg.items, 1))
        /\ gen.up.pulls =
              IF Len(out) = 0 THEN 0
              ELSE IF Len(out) <= SumLen(cfg.items, Len(cfg.items))
                  THEN InnerOf(cfg.items, Len(out))
              ELSE Len(cfg.items) + 1

\* flatten([[1, 2], [], [0]]) has been drained
C13_Witness ==
    /\ mode = "sync" /\ cfg.kind = "flatten" /\ Healthy(cfg)
    /\ cfg.items = <<(<<1, 2>>), (<<>>), (<<0>>)>>
    /\ out = <<Val(1), Val(2), Val(0), Done>>

\* ---------------------------------------------------------------- C14
\* flatten(map(source, fn)) for the source and the fn of the flatMap call c
FlattenMap(c) ==
    Gen("flatten",
        [Gen("map", Source(c.items, c.cyc, c.failAt), {}, c.bad, 0, 0)
            EXCEPT !.iter = TRUE],
        {}, {}, 0, 0)

\* how many of the results the consumer has received are elements
NumVals == Cardinality({i \in 1..Len(out) : out[i].t = "val"})

\* C14: the requests on flatMap(s, fn) return what the same requests on
\* flatten(map(s, fn)) return (elements, done, the failure of fn or of s),
\* leaving s pulled and closed alike; and fn has been called on the i-th
\* element of s only when all elements of fn of the elements before it had
\* been returned: the elements returned so far reach into fn of the last
\* element pulled.
C14_FlatMapIsFlattenMap ==
    (mode = "sync" /\ cfg.kind = "flatMap") =>
        LET ref == SyncPulls(FlattenMap(cfg), Len(out))
            pos == Leaf(gen).pos
        IN  /\ out = ref.outs
            /\ Leaf(gen) = Leaf(ref.g)
            /\ (Healthy(cfg) /\ pos > 0) =>
                  /\ SumTo(cfg.items, pos - 1) <= NumVals
                  /\ NumVals <= SumTo(cfg.items, pos)
                  /\ AllVals => SumTo(cfg.items, pos - 1) < NumVals

\* flatMap([2, 0, 1], fn) has been drained, fn(0) being empty
C14_Witness ==
    /\ mode = "sync" /\ cfg.kind = "flatMap" /\ Healthy(cfg)
    /\ cfg.items = <<2, 0, 1>>
    /\ out = <<Val(2), Val(2), Val(1), Done>>

\* ---------------------------------------------------------------- C15
\* the outermost generator object, in either family
TheTop == IF mode = "sync" THEN gen ELSE procs[Top]

\* C15: the requests on concat(s1, ..., sk) and on concatAsync(s1, ..., sk)
\* return what the same requests on flatten over the list [s1, ..., sk]
\* return; the argument list has been walked as far as the argument the last
\* element came from, every element of the arguments before it has been
\* returned, and the argument being read has been pulled exactly as often as
\* it has given elements: s(i+1) is not touched before s(i) is exhausted.
C15_ConcatIsFlatten ==
    cfg.kind = "concat" =>
        LET ref == SyncPulls(Gen("flatten", Source(cfg.items, FALSE, 0),
                                 {}, {}, 0, 0), Len(out))
            pos == TheLeaf.pos
        IN  /\ out = ref.outs
            /\ pos > 0 =>
                  /\ SumLen(cfg.items, pos - 1) <= NumVals
                  /\ NumVals <= SumLen(cfg.items, pos)
            /\ TheTop.inner.kind # "none" =>
                  /\ TheTop.inner.items = cfg.items[pos]
                  /\ TheTop.inner.pos = NumVals - SumLen(cfg.items, pos - 1)

\* concatAsync([1, 2], [], [0]) has been drained
C15_Witness ==
    /\ mode = "async" /\ cfg.kind = "concat"
    /\ cfg.items = <<(<<1, 2>>), (<<>>), (<<0>>)>>
    /\ out = <<Val(1), Val(2), Val(0), Done>>

\* concat([2, 0], [1, 2]) is in the middle of its second argument
C15_WitnessSync ==
    /\ mode = "sync" /\ cfg.kind = "concat"
    /\ cfg.items = <<(<<2, 0>>), (<<1, 2>>)>>
    /\ out = <<Val(2), Val(0), Val(1)>>

\* ---------------------------------------------------------------- C16
RECURSIVE NonNull(_, _)
\* the results fn gives on the elements c.items[i..], those that are null or
\* undefined left out
NonNull(c, i) ==
    IF i > Len(c.items) THEN <<>>
    ELSE LET r == fnOrNull(c.accept, {}, c.items[i]) IN
         (IF r = Absent THEN <<>> ELSE <<r.v>>) \o NonNull(c, i + 1)

\* C16: the requests on filterMap(s, fn) return, in source order, exactly the
\* results of fn that are not null or undefined (a result of 0 is kept) and
\* then done; an element fn answers null for costs the consumer no request:
\* the upstream is pulled on within the same request as far as the next
\* element with a result, or the end of s.
C16_FilterMapDropsAbsent ==
    (mode = "sync" /\ cfg.kind = "filterMap" /\ Healthy(cfg)) =>
        /\ Received(NonNull(cfg, 1))
        /\ gen.up.pulls =
              IF Len(out) = 0 THEN 0
              ELSE IF Len(out) <= Cardinality(Accepted(cfg))
                  THEN NthAccepted(cfg, Len(out))
              ELSE Len(cfg.items) + 1

\* filterMap has kept the result 0, dropped a null result and kept another
C16_Witness ==
    /\ mode = "sync" /\ cfg.kind = "filterMap" /\ Healthy(cfg)
    /\ cfg.items = <<0, 1, 2>> /\ cfg.accept = {0, 2}
    /\ out = <<Val(0), Val(4), Done>>

\* ---------------------------------------------------------------- C17
\* C17: once reduce(s, fn, initial) or reduceAsync(s, fn, initial) has
\* returned, s not failing and fn failing on none of its elements, the result
\* is the left fold of fn over s from initial, s has been pulled len(s) + 1
\* times (each element once, then the pull that reports done), has handed
\* out all its elements and has not been closed; on an empty s the result is
\* initial whatever fn does.
C17_ReduceFoldsLeft ==
    (cfg.kind = "reduce" /\ cfg.failAt = 0 /\ out # <<>>
        /\ \A i \in 1..Len(cfg.items) : cfg.items[i] \notin cfg.bad) =>
        /\ out = <<Val(FoldLeft(cfg.items, Len(cfg.items), cfg.initial))>>
        /\ TheLeaf.pulls = Len(cfg.items) + 1
        /\ TheLeaf.pos = Len(cfg.items)
        /\ TheLeaf.st = "done" /\ TheLeaf.closes = 0
        /\ cfg.items = <<>> => out = <<Val(cfg.initial)>>

\* reduce([2, 0, 1], fn, 3) has returned 5 = fn(fn(fn(3, 2), 0), 1)
C17_Witness ==
    /\ mode = "sync" /\ cfg.kind = "reduce" /\ Healthy(cfg)
    /\ cfg.items = <<2, 0, 1>> /\ cfg.initial = 3
    /\ out = <<Val(5)>>

\* reduceAsync of an empty source has resolved to initial, fn being one that
\* fails when called on 0
C17_WitnessEmpty ==
    /\ mode = "async" /\ cfg.kind = "reduce" /\ cfg.items = <<>>
    /\ cfg.bad = {0} /\ cfg.initial = 3
    /\ out = <<Val(3)>>

\* ---------------------------------------------------------------- C18
\* the output of the combinator under study has terminated: a request on it
\* was answered with done or with a failure
Terminated == cfg.kind # "reduce" /\ \E i \in 1..Len(out) : out[i].t # "val"

\* everything upstream of the outermost generator: the generators below it
\* and the source
Upstream ==
    IF mode = "sync" THEN <<gen.up>>
    ELSE <<leaf, SubSeq(procs, 1, Len(procs) - 1), inbox>>

\* C18: once a request on the output has been answered with done (upstream
\* exhausted, or take or takeWhile cut it short) or with a failure, every
\* step leaves everything upstream of the combinator as it is (no pull, no
\* close) and a request is answered with done: no element, no failure again.
C18_DoneStaysDone ==
    [][Terminated =>
          /\ Upstream' = Upstream
          /\ out' = out \/ out' = Append(out, Done)]_vars

\* take(unbounded source, 1) was cut short and pulled twice more
C18_Witness ==
    /\ mode = "sync" /\ cfg.kind = "take" /\ cfg.cyc /\ cfg.n = 1
    /\ Len(out) = 4 /\ out[1].t = "val" /\ out[2] = Done /\ out[4] = Done

\* mapAsync was pulled again after the failure of its fn
C18_WitnessFailed ==
    /\ mode = "async" /\ cfg.kind = "map" /\ FailsOn(cfg, 2)
    /\ out = <<Val(fn({}, cfg.items[1]).v), Throw(ErrStep), Done>>

\* filter was pulled again after its source had failed
C18_WitnessSrcFailed ==
    /\ mode = "sync" /\ cfg.kind = "filter" /\ cfg.failAt = 1
    /\ out = <<Throw(ErrSrc), Done, Done>>

\* ---------------------------------------------------------------- C19
\* the keys of the elements among the results o
KeysOf(o) == {KeyOf(o[i].v) : i \in {j \in 1..Len(o) : o[j].t = "val"}}

\* the results o are the elements want, in order, and done after them
Got(o, want) ==
    \A i \in 1..Len(o) : o[i] = IF i <= Len(want) THEN Val(want[i]) ELSE Done

\* in every state: the seen set of a dedupe invocation holds exactly the keys
\* of the elements it has yielded, and two invocations pulled in any
\* interleaving each yield what an invocation pulled alone yields
SeenIsOwn ==
    cfg.kind = "dedupe" =>
        /\ TheTop.seen = KeysOf(out)
        /\ mode = "sync" =>
              /\ gen2.seen = KeysOf(out2)
              /\ out = SyncRef(cfg, Len(out)).outs
              /\ out2 = SyncRef(cfg, Len(out2)).outs
              /\ Healthy(cfg) =>
                    /\ Got(out, Pick(cfg.items, FirstOfKey(cfg.items), 1))
                    /\ Got(out2, Pick(cfg.items, FirstOfKey(cfg.items), 1))

\* in every step: the seen set of each invocation keeps what it held
SeenGrows ==
    cfg.kind = "dedupe" =>
        /\ TheTop.seen \subseteq TheTop'.seen
        /\ mode = "sync" => gen2.seen \subseteq gen2'.seen

\* C19: the key set of a dedupe or dedupeAsync invocation only grows and
\* holds exactly the keys of the elements yielded so far; it belongs to its
\* invocation: two dedupe invocations with the same getKey over the same
\* elements, pulled in any interleaving, each yield the first element of
\* every key, as one pulled alone does.
C19_SeenGrowsAndIsPrivate == [](SeenIsOwn) /\ [][SeenGrows]_vars

\* two dedupe invocations over [0, 2, 1]: one drained, the other has yielded
\* its second element after it
C19_Witness ==
    /\ mode = "sync" /\ cfg.kind = "dedupe" /\ Healthy(cfg)
    /\ cfg.items = <<0, 2, 1>>
    /\ out = <<Val(0), Val(1), Done>>
    /\ out2 = <<Val(0), Val(1)>>
    /\ gen.seen = {0, 1} /\ gen2.seen = {0, 1}

\* ---------------------------------------------------------------- C20
\* the source has answered a pull with done or with a failure: it has been
\* pulled more often than it has handed out elements
LeafRanOut == TheLeaf.pulls > TheLeaf.pos

RECURSIVE AllDone(_)
\* every generator object from g down is completed
AllDone(g) == g.kind = "src" \/ (g.st = "done" /\ AllDone(g.up))
\* every generator of the chain is completed
ChainDone ==
    IF mode = "sync" THEN AllDone(gen)
    ELSE \A i \in 1..Len(procs) : procs[i].st = "done"

\* the source has been closed exactly once, and a pull on it now returns
\* done, whatever elements it has left
SourceClosedOnce == TheLeaf.closes = 1 /\ srcNext(TheLeaf).res = Done

\* the iterable a flatten, flatMap or concat was reading inside yield* when
\* it stopped has been closed as well
InnerClosedOnce ==
    TheTop.inner.kind # "none" =>
        TheTop.inner.closes = 1 /\ srcNext(TheTop.inner).res = Done

\* return() calls on the generators below the outermost one and on the source
ClosesBelow ==
    IF mode = "sync"
    THEN {gen.up.closes}
         \cup (IF gen.up.kind # "src" THEN {gen.up.up.closes} ELSE {})
         \cup (IF gen.up.kind # "src" /\ gen.up.up.kind # "src"
                THEN {gen.up.up.up.closes} ELSE {})
    ELSE {leaf.closes} \cup {procs[i].closes : i \in 1..(Len(procs) - 1)}

\* this step completes the outermost generator while the source has not run
\* out; byConsumer: by the consumer's return() rather than by its own body
TopStops == TheTop.st # "done" /\ TheTop'.st = "done" /\ ~LeafRanOut'
ByConsumer == TheTop'.closes # TheTop.closes

\* C20 (as claimed): whenever a combinator stops before its upstream is
\* exhausted (take at its limit, takeWhile at a rejected element, a failing
\* step function, or the consumer closing it after having begun to iterate)
\* the upstream is closed exactly once, every generator below is finalized
\* and a direct pull on the source returns done.
C20_StopClosesUpstream ==
    [][(TopStops /\ (ByConsumer => TheTop.pulls > 0)) =>
          (SourceClosedOnce' /\ ChainDone' /\ InnerClosedOnce')]_vars

\* C20 (amended): the same, the consumer closing the combinator while it is
\* suspended at a yield inside its loop over the upstream (scan suspended at
\* the yield of initial has not begun its loop and closes nothing); and
\* nothing is ever closed twice.
C20_StopInLoopClosesUpstream ==
    /\ [][(TopStops /\ (ByConsumer => TheTop.st = "yield")) =>
              (SourceClosedOnce' /\ ChainDone' /\ InnerClosedOnce')]_vars
    /\ [](\A c \in ClosesBelow : c <= 1)

\* the consumer closed map(filter(take(source, n), p), f) after two elements:
\* the source, which has more, is closed, and so are take and filter
C20_Witness ==
    /\ mode = "sync" /\ cfg.kind = "chain" /\ cfg.cyc
    /\ Len(out) = 2 /\ AllVals
    /\ gen.closes = 1 /\ gen.up.closes = 1 /\ gen.up.up.closes = 1
    /\ SourceClosedOnce /\ ChainDone

\* the consumer closed flatMap in the middle of an inner iterable
C20_WitnessInner ==
    /\ mode = "sync" /\ cfg.kind = "flatMap" /\ cfg.items = <<2, 1>>
    /\ out = <<Val(2)>> /\ gen.closes = 1
    /\ gen.inner.kind = "src" /\ InnerClosedOnce /\ SourceClosedOnce

\* takeWhileAsync rejected the second of three elements and closed
\* toAsync(source), which closed the source
C20_WitnessBreak ==
    /\ mode = "async" /\ cfg.kind = "takeWhile" /\ Healthy(cfg)
    /\ Len(cfg.items) = 3 /\ PrefixLen(cfg) = 1
    /\ out = <<Val(cfg.items[1]), Done>>
    /\ procs[Top].closes = 0 /\ procs[1].closes = 1
    /\ SourceClosedOnce /\ ChainDone

\* the consumer closed scanAsync after more than the initial value
C20_WitnessAsyncClose ==
    /\ mode = "async" /\ cfg.kind = "scan" /\ Healthy(cfg)
    /\ Len(cfg.items) = 3 /\ Len(out) = 2 /\ AllVals
    /\ procs[Top].closes = 1 /\ SourceClosedOnce /\ ChainDone

====
